---- MODULE Spec2Model ----
(***************************************************************************)
(* Model of products.hpp: the Product / Bond / IRSwap value objects, their *)
(* accessors, the enum-to-label mappings, and the three stream inserters   *)
(* (calendar date, Bond, IRSwap) acting on a std::ostream whose formatting *)
(* state (fill character, pending field width) is part of the state.       *)
(*                                                                         *)
(* Text is modelled by TLA+ strings; \o is concatenation and Len the       *)
(* number of characters.  Enumerators are the integers C++ gives them.     *)
(* A double is modelled as a signed number of hundredths (425 is 4.25).    *)
(* A calendar date is the triple <<year, month, day>>.                     *)
(***************************************************************************)
EXTENDS Integers, Sequences, FiniteSets, TLC

VARIABLES obj, args, built, os, last

vars == <<obj, args, built, os, last>>

(***************************************************************************)
(* Enumerators (products.hpp:19, 56, 97-103)                               *)
(***************************************************************************)
IRSWAP == 0
BOND == 1

CUSIP == 0
ISIN == 1

THIRTY_THREE_SIXTY == 0
ACT_THREE_SIXTY == 1

QUARTERLY == 0
SEMI_ANNUAL == 1
ANNUAL == 2

LIBOR == 0
EURIBOR == 1

TENOR_1M == 0
TENOR_3M == 1
TENOR_6M == 2
TENOR_12M == 3

USD == 0
EUR == 1
GBP == 2

STANDARD == 0
FORWARD == 1
IMM == 2
MAC == 3
BASIS == 4

OUTRIGHT == 0
CURVE == 1
FLY == 2

ProductType == {IRSWAP, BOND}
BondIdType == {CUSIP, ISIN}
DayCountConvention == {THIRTY_THREE_SIXTY, ACT_THREE_SIXTY}
PaymentFrequency == {QUARTERLY, SEMI_ANNUAL, ANNUAL}
FloatingIndex == {LIBOR, EURIBOR}
FloatingIndexTenor == {TENOR_1M, TENOR_3M, TENOR_6M, TENOR_12M}
Currency == {USD, EUR, GBP}
SwapType == {STANDARD, FORWARD, IMM, MAC, BASIS}
SwapLegType == {OUTRIGHT, CURVE, FLY}

(***************************************************************************)
(* Bounds of the model                                                     *)
(***************************************************************************)
\* the caller's std::setw values are 1..MaxWidth
MaxWidth == 2
\* the largest termYears passed to the IRSwap constructor
MaxTermYears == 10

(***************************************************************************)
(* Integer and floating-point insertion (std::num_put, default flags)      *)
(***************************************************************************)
Digit(d) ==
    CASE d = 0 -> "0" [] d = 1 -> "1" [] d = 2 -> "2" [] d = 3 -> "3"
      [] d = 4 -> "4" [] d = 5 -> "5" [] d = 6 -> "6" [] d = 7 -> "7"
      [] d = 8 -> "8" [] d = 9 -> "9"

RECURSIVE NatToText(_)
NatToText(n) ==
    IF n < 10 THEN Digit(n) ELSE NatToText(n \div 10) \o Digit(n % 10)

\* os << int : decimal digits, '-' for a negative value, no padding of its own
IntToText(n) ==
    IF n < 0 THEN "-" \o NatToText(0 - n) ELSE NatToText(n)

\* os << double with the default precision 6 and %g style, for a value of
\* c hundredths: trailing zeros and a trailing point are dropped
DoubleToText(c) ==
    LET a == IF c < 0 THEN 0 - c ELSE c
        ip == a \div 100
        fr == a % 100
        frac == IF fr = 0 THEN ""
                ELSE "." \o Digit(fr \div 10)
                         \o (IF fr % 10 = 0 THEN "" ELSE Digit(fr % 10))
    IN  (IF c < 0 THEN "-" ELSE "") \o NatToText(ip) \o frac

(***************************************************************************)
(* The output stream: text written by the running call, fill, width        *)
(***************************************************************************)
RECURSIVE Pad(_, _)
Pad(c, n) == IF n <= 0 THEN "" ELSE c \o Pad(c, n - 1)

\* a formatted insertion of the text str: right-adjusted in the pending
\* width with the fill character, after which the width is reset to 0
Put(s, str) ==
    [text  |-> s.text \o Pad(s.fill, s.width - Len(str)) \o str,
     fill  |-> s.fill,
     width |-> 0]

setw(s, n) == [s EXCEPT !.width = n]

setfill(s, c) == [s EXCEPT !.fill = c]

\* a freshly constructed stream: fill ' ', width 0
FreshStream == [fill |-> " ", width |-> 0]

\* the stream as a call finds it: nothing written by the call yet
Open(o) == [text |-> "", fill |-> o.fill, width |-> o.width]

\* the formatting state a call leaves behind
Close(s) == [fill |-> s.fill, width |-> s.width]

(***************************************************************************)
(* operator<<(std::ostream&, const std::chrono::year_month_day&)           *)
(***************************************************************************)
\* mutant: the month is inserted without its field width
PutDate_unpadded(s, ymd) ==
    LET year  == ymd[1]
        month == ymd[2]
        day   == ymd[3]
        s1 == Put(s, IntToText(year))
        s2 == Put(s1, "-")
        s3 == Put(setfill(s2, "0"), NatToText(month))
        s4 == Put(s3, "-")
        s5 == Put(setfill(setw(s4, 2), "0"), NatToText(day))
    IN  s5

PutDate(s, ymd) ==
    LET year  == ymd[1]
        month == ymd[2]
        day   == ymd[3]
        s1 == Put(s, IntToText(year))
        s2 == Put(s1, "-")
        s3 == Put(setfill(setw(s2, 2), "0"), NatToText(month))
        s4 == Put(s3, "-")
        s5 == Put(setfill(setw(s4, 2), "0"), NatToText(day))
    IN  s5

(***************************************************************************)
(* IRSwap::ToString overloads                                              *)
(***************************************************************************)
ToString_DayCountConvention(dayCountConvention) ==
    CASE dayCountConvention = THIRTY_THREE_SIXTY -> "30/360"
      [] dayCountConvention = ACT_THREE_SIXTY -> "Act/360"
      [] OTHER -> ""

ToString_PaymentFrequency(paymentFrequency) ==
    CASE paymentFrequency = QUARTERLY -> "Quarterly"
      [] paymentFrequency = SEMI_ANNUAL -> "Semi-Annual"
      [] paymentFrequency = ANNUAL -> "Annual"
      [] OTHER -> ""

ToString_FloatingIndex(floatingIndex) ==
    CASE floatingIndex = LIBOR -> "LIBOR"
      [] floatingIndex = EURIBOR -> "EURIBOR"
      [] OTHER -> ""

ToString_FloatingIndexTenor(floatingIndexTenor) ==
    CASE floatingIndexTenor = TENOR_1M -> "1m"
      [] floatingIndexTenor = TENOR_3M -> "3m"
      [] floatingIndexTenor = TENOR_6M -> "6m"
      [] floatingIndexTenor = TENOR_12M -> "12m"
      [] OTHER -> ""

\* mutant: a placeholder label instead of the empty fallback
ToString_Currency_unknown(currency) ==
    CASE currency = USD -> "USD"
      [] currency = EUR -> "EUR"
      [] currency = GBP -> "GBP"
      [] OTHER -> "Unknown"

ToString_Currency(currency) ==
    CASE currency = USD -> "USD"
      [] currency = EUR -> "EUR"
      [] currency = GBP -> "GBP"
      [] OTHER -> ""

\* mutant: a copied case keeps its neighbour's label
ToString_SwapType_copied(swapType) ==
    CASE swapType = STANDARD -> "Standard"
      [] swapType = FORWARD -> "Forward"
      [] swapType = IMM -> "IMM"
      [] swapType = MAC -> "IMM"
      [] swapType = BASIS -> "Basis"
      [] OTHER -> ""

ToString_SwapType(swapType) ==
    CASE swapType = STANDARD -> "Standard"
      [] swapType = FORWARD -> "Forward"
      [] swapType = IMM -> "IMM"
      [] swapType = MAC -> "MAC"
      [] swapType = BASIS -> "Basis"
      [] OTHER -> ""

ToString_SwapLegType(swapLegType) ==
    CASE swapLegType = OUTRIGHT -> "Outright"
      [] swapLegType = CURVE -> "Curve"
      [] swapLegType = FLY -> "Fly"
      [] OTHER -> ""

(***************************************************************************)
(* operator<<(ostream&, const Bond&) and operator<<(ostream&, const IRSwap&)*)
(***************************************************************************)
\* mutant: the identifier hiding Product::productId is written for the ticker
PutBond_id(s, _bond) ==
    LET s1 == Put(s, _bond.productId)
        s2 == Put(s1, " ")
        s3 == Put(s2, DoubleToText(_bond.coupon))
        s4 == Put(s3, " ")
    IN  PutDate(s4, _bond.maturityDate)

PutBond(s, _bond) ==
    LET s1 == Put(s, _bond.ticker)
        s2 == Put(s1, " ")
        s3 == Put(s2, DoubleToText(_bond.coupon))
        s4 == Put(s3, " ")
    IN  PutDate(s4, _bond.maturityDate)

\* mutant: the two day-count conventions are written in each other's place
PutIRSwap_legs(s, _swap) ==
    LET s1  == Put(s, "fixedDayCount:")
        s2  == Put(s1, ToString_DayCountConvention(_swap.floatingLegDayCountConvention))
        s3  == Put(s2, " floatingDayCount:")
        s4  == Put(s3, ToString_DayCountConvention(_swap.fixedLegDayCountConvention))
        s5  == Put(s4, " paymentFreq:")
        s6  == Put(s5, ToString_PaymentFrequency(_swap.fixedLegPaymentFrequency))
        s7  == Put(s6, " ")
        s8  == Put(s7, ToString_FloatingIndexTenor(_swap.floatingIndexTenor))
        s9  == Put(s8, ToString_FloatingIndex(_swap.floatingIndex))
        s10 == Put(s9, " effective:")
        s11 == PutDate(s10, _swap.effectiveDate)
        s12 == Put(s11, " termination:")
        s13 == PutDate(s12, _swap.terminationDate)
        s14 == Put(s13, " ")
        s15 == Put(s14, ToString_Currency(_swap.currency))
        s16 == Put(s15, " ")
        s17 == Put(s16, IntToText(_swap.termYears))
        s18 == Put(s17, "yrs ")
        s19 == Put(s18, ToString_SwapType(_swap.swapType))
        s20 == Put(s19, " ")
        s21 == Put(s20, ToString_SwapLegType(_swap.swapLegType))
    IN  s21

PutIRSwap(s, _swap) ==
    LET s1  == Put(s, "fixedDayCount:")
        s2  == Put(s1, ToString_DayCountConvention(_swap.fixedLegDayCountConvention))
        s3  == Put(s2, " floatingDayCount:")
        s4  == Put(s3, ToString_DayCountConvention(_swap.floatingLegDayCountConvention))
        s5  == Put(s4, " paymentFreq:")
        s6  == Put(s5, ToString_PaymentFrequency(_swap.fixedLegPaymentFrequency))
        s7  == Put(s6, " ")
        s8  == Put(s7, ToString_FloatingIndexTenor(_swap.floatingIndexTenor))
        s9  == Put(s8, ToString_FloatingIndex(_swap.floatingIndex))
        s10 == Put(s9, " effective:")
        s11 == PutDate(s10, _swap.effectiveDate)
        s12 == Put(s11, " termination:")
        s13 == PutDate(s12, _swap.terminationDate)
        s14 == Put(s13, " ")
        s15 == Put(s14, ToString_Currency(_swap.currency))
        s16 == Put(s15, " ")
        s17 == Put(s16, IntToText(_swap.termYears))
        s18 == Put(s17, "yrs ")
        s19 == Put(s18, ToString_SwapType(_swap.swapType))
        s20 == Put(s19, " ")
        s21 == Put(s20, ToString_SwapLegType(_swap.swapLegType))
    IN  s21

(***************************************************************************)
(* Constructors                                                            *)
(***************************************************************************)
\* mutant: the type tag is not stored and stays zero
Product_ctor_untagged(_productId, _productType) ==
    [productId |-> _productId, productType |-> IRSWAP]

\* Product::Product(string _productId, ProductType _productType)
Product_ctor(_productId, _productType) ==
    [productId |-> _productId, productType |-> _productType]

\* Bond::Bond(_productId, _bondIdType, _ticker, _coupon, _maturityDate);
\* the member Bond::productId, which hides Product::productId, is never
\* assigned and stays the empty string
Bond_ctor(a) ==
    LET base == Product_ctor(a._productId, BOND)
    IN  [class          |-> "Bond",
         productId      |-> base.productId,
         productType    |-> base.productType,
         Bond_productId |-> "",
         bondIdType     |-> a._bondIdType,
         ticker         |-> a._ticker,
         coupon         |-> a._coupon,
         maturityDate   |-> a._maturityDate]

\* mutant: the second pair of date assignments stores the dates crossed
IRSwap_ctor_crossed(a) ==
    LET base == Product_ctor(a._productId, IRSWAP)
    IN  [class                         |-> "IRSwap",
         productId                     |-> base.productId,
         productType                   |-> base.productType,
         fixedLegDayCountConvention    |-> a._fixedLegDayCountConvention,
         floatingLegDayCountConvention |-> a._floatingLegDayCountConvention,
         fixedLegPaymentFrequency      |-> a._fixedLegPaymentFrequency,
         floatingIndex                 |-> a._floatingIndex,
         floatingIndexTenor            |-> a._floatingIndexTenor,
         effectiveDate                 |-> a._terminationDate,
         terminationDate               |-> a._effectiveDate,
         currency                      |-> a._currency,
         termYears                     |-> a._termYears,
         swapType                      |-> a._swapType,
         swapLegType                   |-> a._swapLegType]

\* IRSwap::IRSwap(_productId, ... eleven attributes ...)
IRSwap_ctor(a) ==
    LET base == Product_ctor(a._productId, IRSWAP)
    IN  [class                         |-> "IRSwap",
         productId                     |-> base.productId,
         productType                   |-> base.productType,
         fixedLegDayCountConvention    |-> a._fixedLegDayCountConvention,
         floatingLegDayCountConvention |-> a._floatingLegDayCountConvention,
         fixedLegPaymentFrequency      |-> a._fixedLegPaymentFrequency,
         floatingIndex                 |-> a._floatingIndex,
         floatingIndexTenor            |-> a._floatingIndexTenor,
         effectiveDate                 |-> a._effectiveDate,
         terminationDate               |-> a._terminationDate,
         currency                      |-> a._currency,
         termYears                     |-> a._termYears,
         swapType                      |-> a._swapType,
         swapLegType                   |-> a._swapLegType]

\* the value of a year_month_day whose storage was zero-initialized
ZeroDate == <<0, 0, 0>>

\* Product() = default: productId is the empty string; productType is
\* zero-initialized (IRSWAP) under value-initialization and indeterminate
\* under default-initialization
IndeterminateProductType == {IRSWAP, BOND, BOND + 1}

\* Bond() = default: the strings are empty; the scalar members are
\* zero-initialized or hold whatever the storage held before
Bond_default ==
    { [class          |-> "Bond",
       productId      |-> "",
       productType    |-> t,
       Bond_productId |-> "",
       bondIdType     |-> i,
       ticker         |-> "",
       coupon         |-> c,
       maturityDate   |-> d] :
        t \in IndeterminateProductType, i \in BondIdType,
        c \in {0, 425}, d \in {ZeroDate, <<2030, 6, 15>>} }

\* the scalar members of an IRSwap built by IRSwap() = default: all zero,
\* all one past the last enumerator, or left over from an earlier swap
IRSwap_indeterminate ==
    { [dc |-> THIRTY_THREE_SIXTY, pf |-> QUARTERLY, fi |-> LIBOR,
       ft |-> TENOR_1M, d |-> ZeroDate, cu |-> USD, ty |-> 0,
       st |-> STANDARD, sl |-> OUTRIGHT],
      [dc |-> ACT_THREE_SIXTY + 1, pf |-> ANNUAL + 1, fi |-> EURIBOR + 1,
       ft |-> TENOR_12M + 1, d |-> ZeroDate, cu |-> GBP + 1, ty |-> 0 - 1,
       st |-> BASIS + 1, sl |-> FLY + 1],
      [dc |-> ACT_THREE_SIXTY, pf |-> SEMI_ANNUAL, fi |-> EURIBOR,
       ft |-> TENOR_6M, d |-> <<2024, 1, 1>>, cu |-> EUR, ty |-> 5,
       st |-> MAC, sl |-> CURVE] }

IRSwap_default ==
    { [class                         |-> "IRSwap",
       productId                     |-> "",
       productType                   |-> t,
       fixedLegDayCountConvention    |-> g.dc,
       floatingLegDayCountConvention |-> g.dc,
       fixedLegPaymentFrequency      |-> g.pf,
       floatingIndex                 |-> g.fi,
       floatingIndexTenor            |-> g.ft,
       effectiveDate                 |-> g.d,
       terminationDate               |-> g.d,
       currency                      |-> g.cu,
       termYears                     |-> g.ty,
       swapType                      |-> g.st,
       swapLegType                   |-> g.sl] :
        t \in IndeterminateProductType, g \in IRSwap_indeterminate }

(***************************************************************************)
(* Inputs                                                                  *)
(***************************************************************************)
\* the values a caller can store in a field of enum type E: its enumerators
\* and the first integer past them
Values(E) == E \cup {Cardinality(E)}

Dates == {<<2024, 3, 7>>, <<1999, 11, 23>>, <<2030, 6, 15>>, <<999, 12, 31>>}

BondInputs ==
    [_productId    : {"B1"},
     _bondIdType   : BondIdType,
     _ticker       : {"T", "GS"},
     _coupon       : {425, 400, 450, 5},
     _maturityDate : Dates]

TermYearsSet == {0 - 1} \cup ((MaxTermYears - 1) .. MaxTermYears)

SwapDates == {<<2024, 1, 1>>, <<2034, 1, 1>>, <<999, 12, 31>>}

BaseSwap ==
    [_productId                     |-> "S1",
     _fixedLegDayCountConvention    |-> THIRTY_THREE_SIXTY,
     _floatingLegDayCountConvention |-> ACT_THREE_SIXTY,
     _fixedLegPaymentFrequency      |-> QUARTERLY,
     _floatingIndex                 |-> LIBOR,
     _floatingIndexTenor            |-> TENOR_3M,
     _effectiveDate                 |-> <<2024, 1, 1>>,
     _terminationDate               |-> <<2034, 1, 1>>,
     _currency                      |-> USD,
     _termYears                     |-> 10,
     _swapType                      |-> STANDARD,
     _swapLegType                   |-> OUTRIGHT]

\* the swaps that differ from BaseSwap in at most one argument
SwapInputs ==
    {[BaseSwap EXCEPT !._productId = v] : v \in {"S1", "S2"}}
    \cup {[BaseSwap EXCEPT !._fixedLegDayCountConvention = v] : v \in Values(DayCountConvention)}
    \cup {[BaseSwap EXCEPT !._floatingLegDayCountConvention = v] : v \in Values(DayCountConvention)}
    \cup {[BaseSwap EXCEPT !._fixedLegPaymentFrequency = v] : v \in Values(PaymentFrequency)}
    \cup {[BaseSwap EXCEPT !._floatingIndex = v] : v \in Values(FloatingIndex)}
    \cup {[BaseSwap EXCEPT !._floatingIndexTenor = v] : v \in Values(FloatingIndexTenor)}
    \cup {[BaseSwap EXCEPT !._effectiveDate = v] : v \in SwapDates}
    \cup {[BaseSwap EXCEPT !._terminationDate = v] : v \in SwapDates}
    \cup {[BaseSwap EXCEPT !._currency = v] : v \in Values(Currency)}
    \cup {[BaseSwap EXCEPT !._termYears = v] : v \in TermYearsSet}
    \cup {[BaseSwap EXCEPT !._swapType = v] : v \in Values(SwapType)}
    \cup {[BaseSwap EXCEPT !._swapLegType = v] : v \in Values(SwapLegType)}

\* every combination of the enumerators of the seven categorical fields,
\* together with the swaps of SwapInputs
AllSwapInputs ==
    [_productId                     : {"S1"},
     _fixedLegDayCountConvention    : DayCountConvention,
     _floatingLegDayCountConvention : DayCountConvention,
     _fixedLegPaymentFrequency      : PaymentFrequency,
     _floatingIndex                 : FloatingIndex,
     _floatingIndexTenor            : FloatingIndexTenor,
     _effectiveDate                 : {<<2024, 1, 1>>},
     _terminationDate               : {<<2034, 1, 1>>},
     _currency                      : Currency,
     _termYears                     : {10},
     _swapType                      : SwapType,
     _swapLegType                   : SwapLegType]
    \cup SwapInputs

(***************************************************************************)
(* State                                                                   *)
(***************************************************************************)
NoObj == [class |-> "none"]

NoArgs == [ctor |-> "none"]

\* the record of the last call: its name, argument, result, and the
\* stream's formatting state when it was made
Call(op, arg, val) == [op |-> op, arg |-> arg, val |-> val, before |-> os]

Init ==
    /\ obj = NoObj
    /\ args = NoArgs
    /\ built = NoObj
    /\ os = FreshStream
    /\ last = [op |-> "none", arg |-> 0, val |-> 0, before |-> FreshStream]

(***************************************************************************)
(* Construction and destruction                                            *)
(***************************************************************************)
NewBond(a) ==
    /\ obj = NoObj
    /\ obj' = Bond_ctor(a)
    /\ args' = [ctor |-> "Bond", in |-> a]
    /\ built' = obj'
    /\ last' = Call("Bond", 0, 0)
    /\ UNCHANGED os

NewBondDefault ==
    /\ obj = NoObj
    /\ obj' \in Bond_default
    /\ args' = [ctor |-> "Bond()"]
    /\ built' = obj'
    /\ last' = Call("Bond()", 0, 0)
    /\ UNCHANGED os

NewIRSwap(a) ==
    /\ obj = NoObj
    /\ obj' = IRSwap_ctor(a)
    /\ args' = [ctor |-> "IRSwap", in |-> a]
    /\ built' = obj'
    /\ last' = Call("IRSwap", 0, 0)
    /\ UNCHANGED os

NewIRSwapDefault ==
    /\ obj = NoObj
    /\ obj' \in IRSwap_default
    /\ args' = [ctor |-> "IRSwap()"]
    /\ built' = obj'
    /\ last' = Call("IRSwap()", 0, 0)
    /\ UNCHANGED os

Destroy ==
    /\ obj # NoObj
    /\ obj' = NoObj
    /\ args' = NoArgs
    /\ built' = NoObj
    /\ last' = Call("destroy", 0, 0)
    /\ UNCHANGED os

(***************************************************************************)
(* Accessors: each returns a stored member and changes nothing             *)
(***************************************************************************)
\* Product::GetProductId
GetProductId ==
    /\ obj # NoObj
    /\ last' = Call("GetProductId", 0, obj.productId)
    /\ UNCHANGED <<obj, args, built, os>>

\* Product::GetProductType
GetProductType ==
    /\ obj # NoObj
    /\ last' = Call("GetProductType", 0, obj.productType)
    /\ UNCHANGED <<obj, args, built, os>>

\* Bond::GetTicker
GetTicker ==
    /\ obj.class = "Bond"
    /\ last' = Call("GetTicker", 0, obj.ticker)
    /\ UNCHANGED <<obj, args, built, os>>

\* mutant: a non-const accessor that clears the member it returns
GetCoupon_clearing ==
    /\ obj.class = "Bond"
    /\ last' = Call("GetCoupon", 0, obj.coupon)
    /\ obj' = [obj EXCEPT !.coupon = 0]
    /\ UNCHANGED <<args, built, os>>

\* Bond::GetCoupon
GetCoupon ==
    /\ obj.class = "Bond"
    /\ last' = Call("GetCoupon", 0, obj.coupon)
    /\ UNCHANGED <<obj, args, built, os>>

\* Bond::GetMaturityDate
GetMaturityDate ==
    /\ obj.class = "Bond"
    /\ last' = Call("GetMaturityDate", 0, obj.maturityDate)
    /\ UNCHANGED <<obj, args, built, os>>

\* Bond::GetBondIdType
GetBondIdType ==
    /\ obj.class = "Bond"
    /\ last' = Call("GetBondIdType", 0, obj.bondIdType)
    /\ UNCHANGED <<obj, args, built, os>>

\* IRSwap::GetFixedLegDayCountConvention
GetFixedLegDayCountConvention ==
    /\ obj.class = "IRSwap"
    /\ last' = Call("GetFixedLegDayCountConvention", 0, obj.fixedLegDayCountConvention)
    /\ UNCHANGED <<obj, args, built, os>>

\* IRSwap::GetFloatingLegDayCountConvention
GetFloatingLegDayCountConvention ==
    /\ obj.class = "IRSwap"
    /\ last' = Call("GetFloatingLegDayCountConvention", 0, obj.floatingLegDayCountConvention)
    /\ UNCHANGED <<obj, args, built, os>>

\* IRSwap::GetFixedLegPaymentFrequency
GetFixedLegPaymentFrequency ==
    /\ obj.class = "IRSwap"
    /\ last' = Call("GetFixedLegPaymentFrequency", 0, obj.fixedLegPaymentFrequency)
    /\ UNCHANGED <<obj, args, built, os>>

\* IRSwap::GetFloatingIndex
GetFloatingIndex ==
    /\ obj.class = "IRSwap"
    /\ last' = Call("GetFloatingIndex", 0, obj.floatingIndex)
    /\ UNCHANGED <<obj, args, built, os>>

\* IRSwap::GetFloatingIndexTenor
GetFloatingIndexTenor ==
    /\ obj.class = "IRSwap"
    /\ last' = Call("GetFloatingIndexTenor", 0, obj.floatingIndexTenor)
    /\ UNCHANGED <<obj, args, built, os>>

\* IRSwap::GetEffectiveDate
GetEffectiveDate ==
    /\ obj.class = "IRSwap"
    /\ last' = Call("GetEffectiveDate", 0, obj.effectiveDate)
    /\ UNCHANGED <<obj, args, built, os>>

\* IRSwap::GetTerminationDate
GetTerminationDate ==
    /\ obj.class = "IRSwap"
    /\ last' = Call("GetTerminationDate", 0, obj.terminationDate)
    /\ UNCHANGED <<obj, args, built, os>>

\* IRSwap::GetCurrency
GetCurrency ==
    /\ obj.class = "IRSwap"
    /\ last' = Call("GetCurrency", 0, obj.currency)
    /\ UNCHANGED <<obj, args, built, os>>

\* IRSwap::GetTermYears
GetTermYears ==
    /\ obj.class = "IRSwap"
    /\ last' = Call("GetTermYears", 0, obj.termYears)
    /\ UNCHANGED <<obj, args, built, os>>

\* IRSwap::GetSwapType
GetSwapType ==
    /\ obj.class = "IRSwap"
    /\ last' = Call("GetSwapType", 0, obj.swapType)
    /\ UNCHANGED <<obj, args, built, os>>

\* IRSwap::GetSwapLegType
GetSwapLegType ==
    /\ obj.class = "IRSwap"
    /\ last' = Call("GetSwapLegType", 0, obj.swapLegType)
    /\ UNCHANGED <<obj, args, built, os>>

(***************************************************************************)
(* Calls of the private label mappings on a live IRSwap                    *)
(***************************************************************************)
Call_ToString_DayCountConvention(v) ==
    /\ obj.class = "IRSwap"
    /\ last' = Call("ToString", <<"DayCountConvention", v>>, ToString_DayCountConvention(v))
    /\ UNCHANGED <<obj, args, built, os>>

Call_ToString_PaymentFrequency(v) ==
    /\ obj.class = "IRSwap"
    /\ last' = Call("ToString", <<"PaymentFrequency", v>>, ToString_PaymentFrequency(v))
    /\ UNCHANGED <<obj, args, built, os>>

Call_ToString_FloatingIndex(v) ==
    /\ obj.class = "IRSwap"
    /\ last' = Call("ToString", <<"FloatingIndex", v>>, ToString_FloatingIndex(v))
    /\ UNCHANGED <<obj, args, built, os>>

Call_ToString_FloatingIndexTenor(v) ==
    /\ obj.class = "IRSwap"
    /\ last' = Call("ToString", <<"FloatingIndexTenor", v>>, ToString_FloatingIndexTenor(v))
    /\ UNCHANGED <<obj, args, built, os>>

Call_ToString_Currency(v) ==
    /\ obj.class = "IRSwap"
    /\ last' = Call("ToString", <<"Currency", v>>, ToString_Currency(v))
    /\ UNCHANGED <<obj, args, built, os>>

Call_ToString_SwapType(v) ==
    /\ obj.class = "IRSwap"
    /\ last' = Call("ToString", <<"SwapType", v>>, ToString_SwapType(v))
    /\ UNCHANGED <<obj, args, built, os>>

Call_ToString_SwapLegType(v) ==
    /\ obj.class = "IRSwap"
    /\ last' = Call("ToString", <<"SwapLegType", v>>, ToString_SwapLegType(v))
    /\ UNCHANGED <<obj, args, built, os>>

(***************************************************************************)
(* Rendering and the caller's use of the stream                            *)
(***************************************************************************)
\* os << ymd, called directly
RenderDate(ymd) ==
    /\ obj = NoObj
    /\ LET s == PutDate(Open(os), ymd)
       IN  /\ last' = Call("RenderDate", ymd, s.text)
           /\ os' = Close(s)
    /\ UNCHANGED <<obj, args, built>>

\* os << bond
RenderBond ==
    /\ obj.class = "Bond"
    /\ LET s == PutBond(Open(os), obj)
       IN  /\ last' = Call("RenderBond", 0, s.text)
           /\ os' = Close(s)
    /\ UNCHANGED <<obj, args, built>>

\* os << swap
RenderIRSwap ==
    /\ obj.class = "IRSwap"
    /\ LET s == PutIRSwap(Open(os), obj)
       IN  /\ last' = Call("RenderIRSwap", 0, s.text)
           /\ os' = Close(s)
    /\ UNCHANGED <<obj, args, built>>

\* os << std::setw(n), by the caller, before an insertion
SetW(n) ==
    /\ os.width = 0
    /\ os' = setw(os, n)
    /\ last' = Call("setw", n, 0)
    /\ UNCHANGED <<obj, args, built>>

(***************************************************************************)
(* Specifications                                                          *)
(***************************************************************************)
Accessor ==
    \/ GetProductId
    \/ GetProductType
    \/ GetTicker
    \/ GetCoupon
    \/ GetMaturityDate
    \/ GetBondIdType
    \/ GetFixedLegDayCountConvention
    \/ GetFloatingLegDayCountConvention
    \/ GetFixedLegPaymentFrequency
    \/ GetFloatingIndex
    \/ GetFloatingIndexTenor
    \/ GetEffectiveDate
    \/ GetTerminationDate
    \/ GetCurrency
    \/ GetTermYears
    \/ GetSwapType
    \/ GetSwapLegType

Label ==
    \/ \E v \in Values(DayCountConvention) : Call_ToString_DayCountConvention(v)
    \/ \E v \in Values(PaymentFrequency) : Call_ToString_PaymentFrequency(v)
    \/ \E v \in Values(FloatingIndex) : Call_ToString_FloatingIndex(v)
    \/ \E v \in Values(FloatingIndexTenor) : Call_ToString_FloatingIndexTenor(v)
    \/ \E v \in Values(Currency) : Call_ToString_Currency(v)
    \/ \E v \in Values(SwapType) : Call_ToString_SwapType(v)
    \/ \E v \in Values(SwapLegType) : Call_ToString_SwapLegType(v)

Render ==
    \/ \E d \in Dates : RenderDate(d)
    \/ RenderBond
    \/ RenderIRSwap

Next ==
    \/ \E a \in BondInputs : NewBond(a)
    \/ NewBondDefault
    \/ \E a \in SwapInputs : NewIRSwap(a)
    \/ NewIRSwapDefault
    \/ Destroy
    \/ Accessor
    \/ Label
    \/ Render
    \/ \E n \in 1 .. MaxWidth : SetW(n)

Spec == Init /\ [][Next]_vars

\* every combination of enumerators: the state after the construction
\* of one such swap, then renderings on a stream the caller may set up
InitAll ==
    \E a \in AllSwapInputs :
        /\ obj = IRSwap_ctor(a)
        /\ args = [ctor |-> "IRSwap", in |-> a]
        /\ built = obj
        /\ os = FreshStream
        /\ last = [op |-> "IRSwap", arg |-> 0, val |-> 0, before |-> FreshStream]

NextAll ==
    \/ RenderIRSwap
    \/ \E n \in 1 .. MaxWidth : SetW(n)

SpecAll == InitAll /\ [][NextAll]_vars

(***************************************************************************)
(* The documented behaviour, written down independently of the code        *)
(***************************************************************************)
\* the label table of the design, indexed by enumerator + 1
LabelOf ==
    [DayCountConvention |-> <<"30/360", "Act/360">>,
     PaymentFrequency   |-> <<"Quarterly", "Semi-Annual", "Annual">>,
     FloatingIndex      |-> <<"LIBOR", "EURIBOR">>,
     FloatingIndexTenor |-> <<"1m", "3m", "6m", "12m">>,
     Currency           |-> <<"USD", "EUR", "GBP">>,
     SwapType           |-> <<"Standard", "Forward", "IMM", "MAC", "Basis">>,
     SwapLegType        |-> <<"Outright", "Curve", "Fly">>]

EnumOf ==
    [DayCountConvention |-> DayCountConvention,
     PaymentFrequency   |-> PaymentFrequency,
     FloatingIndex      |-> FloatingIndex,
     FloatingIndexTenor |-> FloatingIndexTenor,
     Currency           |-> Currency,
     SwapType           |-> SwapType,
     SwapLegType        |-> SwapLegType]

DocLabel(kind, v) == LabelOf[kind][v + 1]

DocLabelOrEmpty(kind, v) ==
    IF v \in EnumOf[kind] THEN LabelOf[kind][v + 1] ELSE ""

\* the code's mapping for a given enum
CodeLabel(kind, v) ==
    CASE kind = "DayCountConvention" -> ToString_DayCountConvention(v)
      [] kind = "PaymentFrequency"   -> ToString_PaymentFrequency(v)
      [] kind = "FloatingIndex"      -> ToString_FloatingIndex(v)
      [] kind = "FloatingIndexTenor" -> ToString_FloatingIndexTenor(v)
      [] kind = "Currency"           -> ToString_Currency(v)
      [] kind = "SwapType"           -> ToString_SwapType(v)
      [] kind = "SwapLegType"        -> ToString_SwapLegType(v)

TwoDigits(n) == Digit((n \div 10) % 10) \o Digit(n % 10)

FourDigits(n) == TwoDigits(n \div 100) \o TwoDigits(n % 100)

\* YYYY-MM-DD
IsoDate(ymd) ==
    FourDigits(ymd[1]) \o "-" \o TwoDigits(ymd[2]) \o "-" \o TwoDigits(ymd[3])

\* the year in plain decimal, then -MM-DD
DateText(ymd) ==
    IntToText(ymd[1]) \o "-" \o TwoDigits(ymd[2]) \o "-" \o TwoDigits(ymd[3])

\* the documented rendering of a swap, given the label of each field
SwapText(w, L(_, _)) ==
    "fixedDayCount:" \o L("DayCountConvention", w.fixedLegDayCountConvention)
    \o " floatingDayCount:" \o L("DayCountConvention", w.floatingLegDayCountConvention)
    \o " paymentFreq:" \o L("PaymentFrequency", w.fixedLegPaymentFrequency)
    \o " " \o L("FloatingIndexTenor", w.floatingIndexTenor)
    \o L("FloatingIndex", w.floatingIndex)
    \o " effective:" \o DateText(w.effectiveDate)
    \o " termination:" \o DateText(w.terminationDate)
    \o " " \o L("Currency", w.currency)
    \o " " \o IntToText(w.termYears) \o "yrs "
    \o L("SwapType", w.swapType)
    \o " " \o L("SwapLegType", w.swapLegType)

\* some categorical field of the swap holds a value that is no enumerator
HasForeign(w) ==
    \/ w.fixedLegDayCountConvention \notin DayCountConvention
    \/ w.floatingLegDayCountConvention \notin DayCountConvention
    \/ w.fixedLegPaymentFrequency \notin PaymentFrequency
    \/ w.floatingIndex \notin FloatingIndex
    \/ w.floatingIndexTenor \notin FloatingIndexTenor
    \/ w.currency \notin Currency
    \/ w.swapType \notin SwapType
    \/ w.swapLegType \notin SwapLegType

\* the constructor argument each accessor is documented to return
ArgOf ==
    [GetProductId                     |-> "_productId",
     GetTicker                        |-> "_ticker",
     GetCoupon                        |-> "_coupon",
     GetMaturityDate                  |-> "_maturityDate",
     GetBondIdType                    |-> "_bondIdType",
     GetFixedLegDayCountConvention    |-> "_fixedLegDayCountConvention",
     GetFloatingLegDayCountConvention |-> "_floatingLegDayCountConvention",
     GetFixedLegPaymentFrequency      |-> "_fixedLegPaymentFrequency",
     GetFloatingIndex                 |-> "_floatingIndex",
     GetFloatingIndexTenor            |-> "_floatingIndexTenor",
     GetEffectiveDate                 |-> "_effectiveDate",
     GetTerminationDate               |-> "_terminationDate",
     GetCurrency                      |-> "_currency",
     GetTermYears                     |-> "_termYears",
     GetSwapType                      |-> "_swapType",
     GetSwapLegType                   |-> "_swapLegType"]

\* the member each accessor reads
FieldOf ==
    [GetProductId                     |-> "productId",
     GetProductType                   |-> "productType",
     GetTicker                        |-> "ticker",
     GetCoupon                        |-> "coupon",
     GetMaturityDate                  |-> "maturityDate",
     GetBondIdType                    |-> "bondIdType",
     GetFixedLegDayCountConvention    |-> "fixedLegDayCountConvention",
     GetFloatingLegDayCountConvention |-> "floatingLegDayCountConvention",
     GetFixedLegPaymentFrequency      |-> "fixedLegPaymentFrequency",
     GetFloatingIndex                 |-> "floatingIndex",
     GetFloatingIndexTenor            |-> "floatingIndexTenor",
     GetEffectiveDate                 |-> "effectiveDate",
     GetTerminationDate               |-> "terminationDate",
     GetCurrency                      |-> "currency",
     GetTermYears                     |-> "termYears",
     GetSwapType                      |-> "swapType",
     GetSwapLegType                   |-> "swapLegType"]

Renderings == {"RenderDate", "RenderBond", "RenderIRSwap"}

(***************************************************************************)
(* Claims                                                                  *)
(***************************************************************************)
\* C1: on an instrument built by the fully-parameterized constructor, every
\* accessor returns the constructor argument of its own field.
C1_RoundTrip ==
    (args.ctor \in {"Bond", "IRSwap"} /\ last.op \in DOMAIN ArgOf)
        => last.val = args.in[ArgOf[last.op]]

\* an IRSwap with different effective and termination dates has returned
\* its termination date
C1_Witness ==
    /\ args.ctor = "IRSwap"
    /\ last.op = "GetTerminationDate"
    /\ args.in._effectiveDate # args.in._terminationDate

\* C2: GetProductType returns BOND on a Bond and IRSWAP on an IRSwap built
\* by the parameterized constructors, whatever the other arguments.
C2_ProductType ==
    last.op = "GetProductType" =>
        /\ args.ctor = "Bond" => last.val = BOND
        /\ args.ctor = "IRSwap" => last.val = IRSWAP

C2_Witness ==
    /\ last.op = "GetProductType"
    /\ args.ctor = "Bond"
    /\ last.val = BOND

\* C3: every Bond carries productType BOND and every IRSwap carries IRSWAP,
\* whichever constructor built it.
C3_TypeMatchesClass ==
    /\ obj.class = "Bond" => obj.productType = BOND
    /\ obj.class = "IRSwap" => obj.productType = IRSWAP

\* C4: accessors and renderings leave every stored field as construction
\* set it, so an accessor returns the same value every time it is called.
C4_NoMutation ==
    obj # NoObj =>
        /\ obj = built
        /\ last.op \in DOMAIN FieldOf => last.val = built[FieldOf[last.op]]

\* a Bond is read after a rendering has gone through the stream
C4_Witness ==
    /\ obj.class = "Bond"
    /\ last.op = "GetCoupon"
    /\ last.before.fill = "0"
    /\ obj.coupon # 0

\* C5 as stated: on a stream with no pending width, every date is rendered
\* as YYYY-MM-DD with a four-digit year, whatever the year.
C5_IsoDate ==
    (last.op = "RenderDate" /\ last.before.width = 0)
        => last.val = IsoDate(last.arg)

\* C5 as amended: on a stream with no pending width, a date is rendered as
\* the year in plain decimal, '-', the month as two zero-padded digits, '-',
\* the day as two zero-padded digits, which is YYYY-MM-DD for every year
\* from 1000 to 9999; the dates in the text of a Bond and of an IRSwap have
\* this same form.
C5_DateText ==
    /\ (last.op = "RenderDate" /\ last.before.width = 0) =>
          /\ last.val = DateText(last.arg)
          /\ (last.arg[1] >= 1000 /\ last.arg[1] <= 9999)
                => last.val = IsoDate(last.arg)
    /\ (last.op = "RenderBond" /\ last.before.width = 0) =>
          last.val = obj.ticker \o " " \o DoubleToText(obj.coupon) \o " "
                       \o DateText(obj.maturityDate)
    /\ (last.op = "RenderIRSwap" /\ last.before.width = 0) =>
          last.val = SwapText(obj, DocLabelOrEmpty)

C5_Witness ==
    /\ last.op = "RenderDate"
    /\ last.before.width = 0
    /\ last.arg = <<2024, 3, 7>>
    /\ last.val = "2024-03-07"

\* C6: on a stream with no pending width, a swap whose categorical fields
\* hold enumerators is rendered as the documented concatenation, each label
\* and date taken from the field stored for its position.
C6_SwapText ==
    (last.op = "RenderIRSwap" /\ last.before.width = 0 /\ ~HasForeign(obj))
        => last.val = SwapText(obj, DocLabel)

\* the swap of the design's example has been rendered as the example says
C6_Witness ==
    /\ last.op = "RenderIRSwap"
    /\ last.before.width = 0
    /\ args.in = BaseSwap
    /\ last.val = "fixedDayCount:30/360 floatingDayCount:Act/360 paymentFreq:Quarterly 3mLIBOR effective:2024-01-01 termination:2034-01-01 USD 10yrs Standard Outright"

C8_Labels ==
    (last.op = "ToString" /\ last.arg[2] \in EnumOf[last.arg[1]]) =>
        /\ last.val = DocLabel(last.arg[1], last.arg[2])
        /\ last.val # ""
        /\ \A w \in EnumOf[last.arg[1]] \ {last.arg[2]} :
               CodeLabel(last.arg[1], w) # last.val

C8_Witness ==
    /\ last.op = "ToString"
    /\ last.arg = <<"SwapType", BASIS>>
    /\ last.val = "Basis"

\* C9: a categorical value that is no enumerator is labelled by the empty
\* string, and the rendering of a swap holding such values runs to its end,
\* with every other field and every separator written as usual.
C9_EmptyFallback ==
    /\ (last.op = "ToString" /\ last.arg[2] \notin EnumOf[last.arg[1]])
          => last.val = ""
    /\ (last.op = "RenderIRSwap" /\ last.before.width = 0 /\ HasForeign(obj))
          => last.val = SwapText(obj, DocLabelOrEmpty)

\* a swap whose currency is no enumerator has been rendered
C9_Witness ==
    /\ last.op = "RenderIRSwap"
    /\ last.before.width = 0
    /\ obj.currency \notin Currency
    /\ obj.swapType \in SwapType

\* C10: a rendering leaves the fill character of the stream as it found it,
\* and writes what it would write on a fresh stream with the same pending
\* width.
C10_StreamUntouched ==
    last.op \in Renderings =>
        /\ os.fill = last.before.fill
        /\ LET fresh == Open(setw(FreshStream, last.before.width))
           IN  last.val =
                 CASE last.op = "RenderDate"   -> PutDate(fresh, last.arg).text
                   [] last.op = "RenderBond"   -> PutBond(fresh, obj).text
                   [] last.op = "RenderIRSwap" -> PutIRSwap(fresh, obj).text

====
